---------------------------- MODULE Spec2Model ----------------------------
(***************************************************************************)
(* A model of the agentic RAG chatbot: the in-memory message bus           *)
(* (core/mcp_protocol.py), the chunker (core/document_parser.py), the      *)
(* FAISS-backed vector store (core/vector_store.py), the three agents      *)
(* (agents/*.py) and the coordinator (main.py) with the Streamlit session  *)
(* gate in front of it (ui/streamlit_app.py).                              *)
(*                                                                         *)
(* Python strings are sequences of one-character strings, lists are        *)
(* sequences, dicts are records.  A call that can raise returns a record   *)
(* with a `raised` field.                                                  *)
(***************************************************************************)
EXTENDS Integers, Sequences, FiniteSets, TLC

(***************************************************************************)
(* Bounds of the model.                                                    *)
(***************************************************************************)
\* longest text handed to the chunker
MaxContentLen == 6
\* largest chunk_size / overlap handed to the chunker
MaxChunkParam == 3
\* most envelopes sent on the bus when it is driven on its own
MaxBusMsgs == 3
\* most entries the vector index may hold
MaxIndex == 3
\* largest top_k handed to VectorStore.search when it is driven on its own
MaxTopK == 3
\* most documents in one add_documents batch when it is driven on its own
MaxBatchDocs == 2
\* most files in one process_documents request
MaxFiles == 2
\* most work the callers ask for: one unit per ingestion run or accepted
\* question (a trace id drawn) plus one per file submitted
MaxWork == 4

(***************************************************************************)
(* Python string and list helpers.                                         *)
(***************************************************************************)
Chars == {" ", "a", "b"}

IsSpace(c) == c = " "

Min(a, b) == IF a < b THEN a ELSE b

Max(a, b) == IF a > b THEN a ELSE b

\* seq[i:j] with 0-based, end-exclusive, clipped bounds (i, j >= 0)
Slice(seq, i, j) ==
    LET lo == Min(i, Len(seq))
        hi == Min(j, Len(seq))
    IN  IF hi <= lo THEN <<>> ELSE [n \in 1..(hi - lo) |-> seq[lo + n]]

\* str.strip(): drop leading and trailing whitespace
RECURSIVE LStrip(_)
LStrip(s) == IF s # <<>> /\ IsSpace(Head(s)) THEN LStrip(Tail(s)) ELSE s

RECURSIVE RStrip(_)
RStrip(s) ==
    IF s # <<>> /\ IsSpace(s[Len(s)]) THEN RStrip(SubSeq(s, 1, Len(s) - 1)) ELSE s

Strip(s) == RStrip(LStrip(s))

\* str.split(): maximal runs of non-whitespace characters, in order
RECURSIVE SplitFrom(_, _, _)
SplitFrom(s, cur, acc) ==
    IF s = <<>>
    THEN IF cur = <<>> THEN acc ELSE Append(acc, cur)
    ELSE IF IsSpace(Head(s))
         THEN SplitFrom(Tail(s), <<>>, IF cur = <<>> THEN acc ELSE Append(acc, cur))
         ELSE SplitFrom(Tail(s), Append(cur, Head(s)), acc)

Split(s) == SplitFrom(s, <<>>, <<>>)

\* ' '.join(words)
RECURSIVE Join(_)
Join(words) ==
    IF words = <<>> THEN <<>>
    ELSE IF Len(words) = 1 THEN words[1]
    ELSE words[1] \o <<" ">> \o Join(Tail(words))

\* list(range(0, stop, step)) for step > 0
RECURSIVE RangeFrom(_, _, _)
RangeFrom(i, stop, step) ==
    IF i >= stop THEN <<>> ELSE <<i>> \o RangeFrom(i + step, stop, step)

\* text[:n] + "..." if len(text) > n else text
Preview(text, n) ==
    IF Len(text) > n THEN SubSeq(text, 1, n) \o <<".", ".", ".">> ELSE text

(***************************************************************************)
(* DocumentParser._create_chunks                                           *)
(***************************************************************************)
\* a window that starts one word late
ChunkAt_OffByOne(words, i, chunk_size) == Join(Slice(words, i + 1, i + chunk_size))

\* the loop body: one window of chunk_size words starting at word i
ChunkAt(words, i, chunk_size) == Join(Slice(words, i, i + chunk_size))

\* a loop that stops as soon as a window has reached the last word
ChunkStarts_StopWhenCovered(n, chunk_size, overlap) ==
    IF chunk_size - overlap > 0
    THEN RangeFrom(0, Max(n - overlap, 1), chunk_size - overlap)
    ELSE <<>>

\* the window starts: range(0, len(words), chunk_size - overlap)
ChunkStarts(n, chunk_size, overlap) ==
    IF chunk_size - overlap > 0 THEN RangeFrom(0, n, chunk_size - overlap) ELSE <<>>

\* the chunks appended by the loop, in order (empty windows are skipped)
RECURSIVE AppendChunks(_, _, _)
AppendChunks(words, starts, chunk_size) ==
    IF starts = <<>> THEN <<>>
    ELSE LET chunk == ChunkAt(words, Head(starts), chunk_size)
             rest == AppendChunks(words, Tail(starts), chunk_size)
         IN  IF Strip(chunk) # <<>> THEN <<Strip(chunk)>> \o rest ELSE rest

\* range() raises ValueError on a zero step; a negative step is an empty range
CreateChunks(content, chunk_size, overlap) ==
    IF Strip(content) = <<>> THEN [raised |-> FALSE, chunks |-> <<>>]
    ELSE IF chunk_size - overlap = 0 THEN [raised |-> TRUE, chunks |-> <<>>]
    ELSE [raised |-> FALSE,
          chunks |-> AppendChunks(Split(content),
                                  ChunkStarts(Len(Split(content)), chunk_size, overlap),
                                  chunk_size)]

(***************************************************************************)
(* DocumentParser.parse_document over a small upload directory.  A path is *)
(* the sequence of its components.  The format readers (PyPDF2, pandas,    *)
(* open) are given by what they return for each file: the extracted text,  *)
(* the row texts of a CSV, or an exception.  A document's content is the   *)
(* extracted text or, for an error or CSV document, a one-element sequence *)
(* holding the placeholder text; nothing reads it.                         *)
(***************************************************************************)
FilePaths == {<<"uploads", "notes.txt">>, <<"uploads", "rows.csv">>,
              <<"uploads", "scan.pdf">>, <<"uploads", "data.xyz">>}

\* os.path.basename / Path.name
Basename(path) == path[Len(path)]

\* Path.suffix.lower()
Suffix(path) ==
    LET name == Basename(path)
    IN  IF name = "notes.txt" THEN ".txt"
        ELSE IF name = "rows.csv" THEN ".csv"
        ELSE IF name = "scan.pdf" THEN ".pdf"
        ELSE ".xyz"

\* DocumentParser.supported_formats
SupportedFormats == {".pdf", ".pptx", ".docx", ".csv", ".txt", ".md"}

\* what the format reader returns for the file: scan.pdf cannot be read
ReadFile(path) ==
    LET name == Basename(path)
    IN  IF name = "notes.txt"
        THEN [raised |-> FALSE, content |-> <<"a", " ", "b">>]
        ELSE IF name = "rows.csv"
        THEN [raised |-> FALSE, rows |-> << <<"b">>, <<"c", " ", "c">> >>]
        ELSE [raised |-> TRUE, error |-> "EOF marker not found"]

\* the default chunk_size of _create_chunks
DefaultChunkSize == 500

\* the default overlap of _create_chunks
DefaultOverlap == 50

\* DocumentParser.parse_document: raises on an unsupported extension, turns a
\* reader's exception into a zero-chunk error document
ParseDocument(path) ==
    IF Suffix(path) \notin SupportedFormats
    THEN [raised |-> TRUE, error |-> "Unsupported file format"]
    ELSE LET r == ReadFile(path)
         IN  IF r.raised
             THEN [raised |-> FALSE,
                   doc |-> [filename |-> Basename(path),
                            content |-> <<"Error parsing document">>,
                            chunks |-> <<>>,
                            metadata |-> [error |-> r.error]]]
             ELSE IF Suffix(path) = ".csv"
             THEN [raised |-> FALSE,
                   doc |-> [filename |-> Basename(path),
                            content |-> <<"CSV Data Summary">>,
                            chunks |-> r.rows,
                            metadata |-> [format |-> "csv", rows |-> Len(r.rows)]]]
             ELSE [raised |-> FALSE,
                   doc |-> [filename |-> Basename(path),
                            content |-> r.content,
                            chunks |-> CreateChunks(r.content, DefaultChunkSize,
                                                    DefaultOverlap).chunks,
                            metadata |-> [format |-> "txt", size |-> Len(r.content)]]]

\* the body of IngestionAgent.process_documents' loop: one document per file,
\* a zero-chunk error document when parse_document raises
IngestFile(path) ==
    LET r == ParseDocument(path)
    IN  IF r.raised
        THEN [filename |-> Basename(path), content |-> <<"Error">>, chunks |-> <<>>,
              metadata |-> [error |-> r.error]]
        ELSE r.doc

\* IngestionAgent.process_documents: the documents of a list of files
IngestFiles(file_paths) == [i \in 1..Len(file_paths) |-> IngestFile(file_paths[i])]

\* all sequences over S of length at most n
SeqsUpTo(S, n) == UNION {[1..k -> S] : k \in 0..n}

(***************************************************************************)
(* MCPProtocol: the message bus.  An envelope is the MCPMessage record.    *)
(* Its timestamp is a logical send clock (the number of envelopes sent so  *)
(* far), which also tells two envelopes with equal fields apart, as        *)
(* Python's object identity does.  A trace id is a positive number;        *)
(* generate_trace_id draws the next unused one.                            *)
(***************************************************************************)
\* trace_id: Optional[str] = None
NoTrace == 0

SeqRemove(seq, i) == [n \in 1..(Len(seq) - 1) |-> IF n < i THEN seq[n] ELSE seq[n + 1]]

\* MCPProtocol.send_message: append to the history and to the live queue
\* a send_message that queues the envelope without recording it
SendMessage_NoHistory(queue, history, counter, sender, receiver, message_type, payload, trace_id) ==
    LET tid == IF trace_id = NoTrace THEN counter + 1 ELSE trace_id
        message == [sender |-> sender, receiver |-> receiver, type |-> message_type,
                    trace_id |-> tid, timestamp |-> Len(history) + 1,
                    payload |-> payload]
    IN  [message_queue |-> Append(queue, message),
         message_history |-> history,
         trace_counter |-> IF trace_id = NoTrace THEN counter + 1 ELSE counter,
         trace_id |-> tid]

SendMessage(queue, history, counter, sender, receiver, message_type, payload, trace_id) ==
    LET tid == IF trace_id = NoTrace THEN counter + 1 ELSE trace_id
        message == [sender |-> sender, receiver |-> receiver, type |-> message_type,
                    trace_id |-> tid, timestamp |-> Len(history) + 1,
                    payload |-> payload]
    IN  [message_queue |-> Append(queue, message),
         message_history |-> Append(history, message),
         trace_counter |-> IF trace_id = NoTrace THEN counter + 1 ELSE counter,
         trace_id |-> tid]

\* a scan that keeps going and settles on the last envelope for agent_name
ReceiveIndex_Last(queue, agent_name) ==
    LET mine == {i \in 1..Len(queue) : queue[i].receiver = agent_name}
    IN  IF mine = {} THEN 0 ELSE CHOOSE i \in mine : \A j \in mine : j <= i

\* the scan of receive_message: the first position whose envelope is for
\* agent_name, 0 when there is none
ReceiveIndex(queue, agent_name) ==
    LET mine == {i \in 1..Len(queue) : queue[i].receiver = agent_name}
    IN  IF mine = {} THEN 0 ELSE CHOOSE i \in mine : \A j \in mine : i <= j

\* a receive_message that reads the envelope and leaves it queued
ReceiveMessage_Peek(queue, agent_name) ==
    LET i == ReceiveIndex(queue, agent_name)
    IN  IF i = 0
        THEN [found |-> FALSE, message_queue |-> queue]
        ELSE [found |-> TRUE, message |-> queue[i], message_queue |-> queue]

\* MCPProtocol.receive_message: pop that envelope, or return None
ReceiveMessage(queue, agent_name) ==
    LET i == ReceiveIndex(queue, agent_name)
    IN  IF i = 0
        THEN [found |-> FALSE, message_queue |-> queue]
        ELSE [found |-> TRUE, message |-> queue[i], message_queue |-> SeqRemove(queue, i)]

\* MCPProtocol.get_message_history
GetMessageHistory(history, trace_id) ==
    IF trace_id # NoTrace THEN SelectSeq(history, LAMBDA m : m.trace_id = trace_id)
    ELSE history

(***************************************************************************)
(* VectorStore.  The sentence-transformer model is a fixed function from   *)
(* text to a 2-dimensional integer vector whose direction is set by the    *)
(* first character and whose length is the text's length, so that          *)
(* normalisation has work to do and scores lie in {-1, 0, 1}.  The FAISS   *)
(* index is the sequence of the normalised vectors added to it;            *)
(* index.ntotal is its length.                                             *)
(***************************************************************************)
\* SentenceTransformer.encode of one text
Embed(text) ==
    IF text = <<>> THEN <<0, -1>>
    ELSE IF text[1] = "a" THEN <<Len(text), 0>>
    ELSE IF text[1] = "b" THEN <<0, Len(text)>>
    ELSE <<-Len(text), 0>>

Abs(x) == IF x < 0 THEN -x ELSE x

\* np.linalg.norm of a vector that lies on an axis
Norm(v) == Abs(v[1]) + Abs(v[2])

\* v / np.linalg.norm(v)
Normalize(v) == <<v[1] \div Norm(v), v[2] \div Norm(v)>>

\* the inner product IndexFlatIP scores with
Dot(u, v) == u[1] * v[1] + u[2] * v[2]

\* the per-chunk records add_documents builds for one document
DocChunkMetadata(doc) ==
    [i \in 1..Len(doc.chunks) |->
        [filename |-> doc.filename, chunk_id |-> i - 1,
         doc_metadata |-> doc.metadata,
         chunk_text |-> Preview(doc.chunks[i], 100)]]

RECURSIVE AllChunks(_)
AllChunks(documents) ==
    IF documents = <<>> THEN <<>>
    ELSE Head(documents).chunks \o AllChunks(Tail(documents))

RECURSIVE AllMetadata(_)
AllMetadata(documents) ==
    IF documents = <<>> THEN <<>>
    ELSE DocChunkMetadata(Head(documents)) \o AllMetadata(Tail(documents))

\* an add_documents that calls model.encode on an empty batch too
AddDocuments_NoEmptyGuard(index, chunks, metadata, documents, encode_ok) ==
    LET all_chunks == AllChunks(documents)
        all_metadata == AllMetadata(documents)
        embeddings == [i \in 1..Len(all_chunks) |-> Normalize(Embed(all_chunks[i]))]
    IN  IF ~encode_ok
        THEN [raised |-> TRUE, index |-> index, chunks |-> chunks, metadata |-> metadata]
        ELSE [raised |-> FALSE, index |-> index \o embeddings,
              chunks |-> chunks \o all_chunks, metadata |-> metadata \o all_metadata]

\* an add_documents that extends the chunk and metadata lists before it
\* encodes
AddDocuments_ExtendFirst(index, chunks, metadata, documents, encode_ok) ==
    LET all_chunks == AllChunks(documents)
        all_metadata == AllMetadata(documents)
        embeddings == [i \in 1..Len(all_chunks) |-> Normalize(Embed(all_chunks[i]))]
    IN  IF all_chunks = <<>>
        THEN [raised |-> FALSE, index |-> index, chunks |-> chunks, metadata |-> metadata]
        ELSE IF ~encode_ok
        THEN [raised |-> TRUE, index |-> index,
              chunks |-> chunks \o all_chunks, metadata |-> metadata \o all_metadata]
        ELSE [raised |-> FALSE, index |-> index \o embeddings,
              chunks |-> chunks \o all_chunks, metadata |-> metadata \o all_metadata]

\* VectorStore.add_documents; encode_ok is whether model.encode returns
\* (it is only called for a non-empty batch)
AddDocuments(index, chunks, metadata, documents, encode_ok) ==
    LET all_chunks == AllChunks(documents)
        all_metadata == AllMetadata(documents)
        embeddings == [i \in 1..Len(all_chunks) |-> Normalize(Embed(all_chunks[i]))]
    IN  IF all_chunks = <<>>
        THEN [raised |-> FALSE, index |-> index, chunks |-> chunks, metadata |-> metadata]
        ELSE IF ~encode_ok
        THEN [raised |-> TRUE, index |-> index, chunks |-> chunks, metadata |-> metadata]
        ELSE [raised |-> FALSE, index |-> index \o embeddings,
              chunks |-> chunks \o all_chunks, metadata |-> metadata \o all_metadata]

(***************************************************************************)
(* faiss.IndexFlatIP.search for one query: top_k (score, label) pairs, the *)
(* best scores first, padded with label -1 and the lowest float when the   *)
(* index holds fewer than top_k vectors.  Labels are 0-based.  FAISS does  *)
(* not promise an order among equal scores: the scan keeps the             *)
(* lower-labelled of two equal scores at the cut, and a build returns      *)
(* equal scores either lower label first or higher label first.            *)
(***************************************************************************)
FaissTieOrders == {"lower_first", "higher_first"}

\* the score FAISS pads with: the lowest float32, -3.4028235e38
FaissNeutralScore == -1000

\* the label FAISS pads with
FaissNoLabel == -1

\* labels in scan order of preference: higher score, then lower label
RECURSIVE FaissKeep(_, _, _)
FaissKeep(scores, labels, k) ==
    IF k = 0 \/ labels = {} THEN {}
    ELSE LET best == CHOOSE i \in labels : \A j \in labels :
                         \/ scores[i] > scores[j]
                         \/ (scores[i] = scores[j] /\ i <= j)
         IN  {best} \cup FaissKeep(scores, labels \ {best}, k - 1)

RECURSIVE FaissOrder(_, _, _)
FaissOrder(scores, labels, tie) ==
    IF labels = {} THEN <<>>
    ELSE LET best == CHOOSE i \in labels : \A j \in labels :
                         \/ scores[i] > scores[j]
                         \/ /\ scores[i] = scores[j]
                            /\ IF tie = "lower_first" THEN i <= j ELSE i >= j
         IN  <<[score |-> scores[best], idx |-> best - 1]>>
                 \o FaissOrder(scores, labels \ {best}, tie)

FaissSearch(index, query_embedding, top_k, tie) ==
    LET scores == [i \in 1..Len(index) |-> Dot(query_embedding, index[i])]
        kept == FaissKeep(scores, 1..Len(index), top_k)
        found == FaissOrder(scores, kept, tie)
    IN  found \o [i \in 1..(top_k - Len(found)) |->
                    [score |-> FaissNeutralScore, idx |-> FaissNoLabel]]

\* the test a hit must pass to be returned: idx < len(self.chunks)
ValidIndex(idx, n) == idx < n

\* list[idx] for a Python index, negative ones counting from the end
PyIndex(seq, idx) == IF idx < 0 THEN seq[Len(seq) + idx + 1] ELSE seq[idx + 1]

\* the loop of VectorStore.search over the hits
RECURSIVE SearchResults(_, _, _)
SearchResults(hits, chunks, metadata) ==
    IF hits = <<>> THEN <<>>
    ELSE LET hit == Head(hits)
             rest == SearchResults(Tail(hits), chunks, metadata)
         IN  IF ValidIndex(hit.idx, Len(chunks))
             THEN <<[chunk |-> PyIndex(chunks, hit.idx),
                     metadata |-> PyIndex(metadata, hit.idx),
                     score |-> hit.score]>> \o rest
             ELSE rest

\* VectorStore.search; encode_ok is whether model.encode returns
Search(index, chunks, metadata, query, top_k, tie, encode_ok) ==
    IF Len(index) = 0 THEN [raised |-> FALSE, results |-> <<>>]
    ELSE IF ~encode_ok THEN [raised |-> TRUE, results |-> <<>>]
    ELSE [raised |-> FALSE,
          results |-> SearchResults(
                          FaissSearch(index, Normalize(Embed(query)), top_k, tie),
                          chunks, metadata)]

(***************************************************************************)
(* The agents and the coordinator, as functions of the process state w:    *)
(* a record of the bus (message_queue, message_history, trace_counter),    *)
(* the vector store (index, chunks, metadata), IngestionAgent's            *)
(* processed_documents, RetrievalAgent's is_initialized, the coordinator's *)
(* documents_processed and the number of text-generation calls made        *)
(* (llm_calls).  Each returns the new state w, whether it raised, and its  *)
(* return value.                                                           *)
(***************************************************************************)
\* a generate_trace_id that hands every request the same id
GenerateTraceId_Fixed(w) ==
    [w |-> [w EXCEPT !.trace_counter = @ + 1], trace_id |-> 1]

\* mcp.generate_trace_id()
GenerateTraceId(w) ==
    [w |-> [w EXCEPT !.trace_counter = @ + 1], trace_id |-> w.trace_counter + 1]

\* mcp.send_message(...) on the process state
Send(w, sender, receiver, message_type, payload, trace_id) ==
    LET r == SendMessage(w.message_queue, w.message_history, w.trace_counter,
                         sender, receiver, message_type, payload, trace_id)
    IN  [w EXCEPT !.message_queue = r.message_queue,
                  !.message_history = r.message_history,
                  !.trace_counter = r.trace_counter]

\* the dimension of all-MiniLM-L6-v2
Dimension == 384

\* VectorStore.get_stats
GetStats(w) == [total_chunks |-> Len(w.index), dimension |-> Dimension, model |-> Dimension]

\* IngestionAgent.process_documents
IngestionProcessDocuments(w, file_paths, trace_id) ==
    LET processed_docs == IngestFiles(file_paths)
        w1 == [w EXCEPT !.processed_documents = @ \o processed_docs]
    IN  [w |-> Send(w1, "IngestionAgent", "RetrievalAgent", "INGESTION_COMPLETE",
                    [processed_documents |-> processed_docs,
                     total_documents |-> Len(processed_docs),
                     total_chunks |-> Len(AllChunks(processed_docs))],
                    trace_id),
         raised |-> FALSE,
         value |-> processed_docs]

\* the test of process_ingestion_message on what it received
IsIngestionComplete(r) == r.found /\ r.message.type = "INGESTION_COMPLETE"

\* a process_ingestion_message that takes the envelope out of the queue only
\* once the index is built
RetrievalProcessIngestionMessage_PopAfterBuild(w, trace_id, encode_ok) ==
    LET r == ReceiveMessage(w.message_queue, "RetrievalAgent")
        w1 == [w EXCEPT !.message_queue = r.message_queue]
    IN  IF IsIngestionComplete(r)
        THEN LET a == AddDocuments(w1.index, w1.chunks, w1.metadata,
                                   r.message.payload.processed_documents, encode_ok)
                 w2 == [w1 EXCEPT !.index = a.index, !.chunks = a.chunks,
                                  !.metadata = a.metadata, !.is_initialized = TRUE]
             IN  IF a.raised
                 THEN [w |-> w, raised |-> TRUE, value |-> FALSE]
                 ELSE [w |-> Send(w2, "RetrievalAgent", "CoordinatorAgent",
                                  "RETRIEVAL_READY",
                                  [status |-> "ready", vector_store_stats |-> GetStats(w2)],
                                  trace_id),
                       raised |-> FALSE,
                       value |-> TRUE]
        ELSE [w |-> w1, raised |-> FALSE, value |-> FALSE]

\* RetrievalAgent.process_ingestion_message
RetrievalProcessIngestionMessage(w, trace_id, encode_ok) ==
    LET r == ReceiveMessage(w.message_queue, "RetrievalAgent")
        w1 == [w EXCEPT !.message_queue = r.message_queue]
    IN  IF IsIngestionComplete(r)
        THEN LET a == AddDocuments(w1.index, w1.chunks, w1.metadata,
                                   r.message.payload.processed_documents, encode_ok)
                 w2 == [w1 EXCEPT !.index = a.index, !.chunks = a.chunks,
                                  !.metadata = a.metadata, !.is_initialized = TRUE]
             IN  IF a.raised
                 THEN [w |-> w1, raised |-> TRUE, value |-> FALSE]
                 ELSE [w |-> Send(w2, "RetrievalAgent", "CoordinatorAgent",
                                  "RETRIEVAL_READY",
                                  [status |-> "ready", vector_store_stats |-> GetStats(w2)],
                                  trace_id),
                       raised |-> FALSE,
                       value |-> TRUE]
        ELSE [w |-> w1, raised |-> FALSE, value |-> FALSE]

\* the chunk_info records search_documents builds from the search results
RetrievedChunks(results) ==
    [i \in 1..Len(results) |->
        [text |-> results[i].chunk,
         filename |-> results[i].metadata.filename,
         score |-> results[i].score,
         chunk_id |-> results[i].metadata.chunk_id]]

\* RetrievalAgent.search_documents
RetrievalSearchDocuments(w, query, top_k, trace_id, tie, encode_ok) ==
    IF ~w.is_initialized THEN [w |-> w, raised |-> FALSE, value |-> <<>>]
    ELSE LET r == Search(w.index, w.chunks, w.metadata, query, top_k, tie, encode_ok)
             retrieved_chunks == RetrievedChunks(r.results)
         IN  IF r.raised THEN [w |-> w, raised |-> TRUE, value |-> <<>>]
             ELSE [w |-> IF trace_id # NoTrace
                         THEN Send(w, "RetrievalAgent", "LLMResponseAgent",
                                   "CONTEXT_RESPONSE",
                                   [retrieved_context |-> retrieved_chunks,
                                    query |-> query,
                                    total_results |-> Len(retrieved_chunks)],
                                   trace_id)
                         ELSE w,
                   raised |-> FALSE,
                   value |-> retrieved_chunks]

\* sources numbered by their position in the loop, not by the chunk's own id
Sources_EnumerateIndex(retrieved_context) ==
    [i \in 1..Len(retrieved_context) |->
        [filename |-> retrieved_context[i].filename,
         chunk_id |-> i - 1,
         score |-> retrieved_context[i].score,
         preview |-> Preview(retrieved_context[i].text, 150)]]

\* the sources generate_response builds from the retrieved context
Sources(retrieved_context) ==
    [i \in 1..Len(retrieved_context) |->
        [filename |-> retrieved_context[i].filename,
         chunk_id |-> retrieved_context[i].chunk_id,
         score |-> retrieved_context[i].score,
         preview |-> Preview(retrieved_context[i].text, 150)]]

\* a test that takes any envelope for the context
IsContextResponse_AnyEnvelope(r) == r.found

\* the test of generate_response on what it received
IsContextResponse(r) == r.found /\ r.message.type = "CONTEXT_RESPONSE"

\* a generate_response whose except branch returns without sending
LLMGenerateResponse_SilentError(w, query, trace_id, generate_ok) ==
    LET r == ReceiveMessage(w.message_queue, "LLMResponseAgent")
        w1 == [w EXCEPT !.message_queue = r.message_queue]
    IN  IF ~IsContextResponse(r)
        THEN [w |-> w1, raised |-> FALSE, fault |-> "no_context",
              value |-> [answer |-> "couldn't retrieve relevant information",
                         sources |-> <<>>,
                         error |-> "No context available"]]
        ELSE LET retrieved_context == r.message.payload.retrieved_context
                 sources == Sources(retrieved_context)
                 w2 == [w1 EXCEPT !.llm_calls = @ + 1]
                 response_data == [answer |-> "generated text", sources |-> sources,
                                   query |-> query,
                                   context_used |-> Len(retrieved_context)]
                 error_response == [answer |-> "error while generating the response",
                                    sources |-> sources,
                                    error |-> "generation failed"]
             IN  IF generate_ok
                 THEN [w |-> Send(w2, "LLMResponseAgent", "CoordinatorAgent",
                                  "RESPONSE_COMPLETE", response_data, trace_id),
                       raised |-> FALSE, fault |-> "none", value |-> response_data]
                 ELSE [w |-> w2,
                       raised |-> FALSE, fault |-> "generation",
                       value |-> error_response]

\* LLMResponseAgent.generate_response; generate_ok is whether the Gemini call
\* returns; fault names the branch that produced the result
LLMGenerateResponse(w, query, trace_id, generate_ok) ==
    LET r == ReceiveMessage(w.message_queue, "LLMResponseAgent")
        w1 == [w EXCEPT !.message_queue = r.message_queue]
    IN  IF ~IsContextResponse(r)
        THEN [w |-> w1, raised |-> FALSE, fault |-> "no_context",
              value |-> [answer |-> "couldn't retrieve relevant information",
                         sources |-> <<>>,
                         error |-> "No context available"]]
        ELSE LET retrieved_context == r.message.payload.retrieved_context
                 sources == Sources(retrieved_context)
                 w2 == [w1 EXCEPT !.llm_calls = @ + 1]
                 response_data == [answer |-> "generated text", sources |-> sources,
                                   query |-> query,
                                   context_used |-> Len(retrieved_context)]
                 error_response == [answer |-> "error while generating the response",
                                    sources |-> sources,
                                    error |-> "generation failed"]
             IN  IF generate_ok
                 THEN [w |-> Send(w2, "LLMResponseAgent", "CoordinatorAgent",
                                  "RESPONSE_COMPLETE", response_data, trace_id),
                       raised |-> FALSE, fault |-> "none", value |-> response_data]
                 ELSE [w |-> Send(w2, "LLMResponseAgent", "CoordinatorAgent",
                                  "RESPONSE_ERROR", error_response, trace_id),
                       raised |-> FALSE, fault |-> "generation",
                       value |-> error_response]

\* a clear_vector_store that empties the store and leaves the agent
\* initialized
ClearVectorStore_StaysInitialized(w) ==
    [w EXCEPT !.index = <<>>, !.chunks = <<>>, !.metadata = <<>>]

\* RetrievalAgent.clear_vector_store
ClearVectorStore(w) ==
    [w EXCEPT !.index = <<>>, !.chunks = <<>>, !.metadata = <<>>,
              !.is_initialized = FALSE]

\* CoordinatorAgent.process_documents from the return of
\* process_ingestion_message on: caught is whether the except branch ran (the
\* index build raised)
CoordinatorBuildOutcome(b) ==
    IF b.raised THEN [w |-> b.w, value |-> FALSE, caught |-> TRUE]
    ELSE IF b.value
    THEN [w |-> [b.w EXCEPT !.documents_processed = TRUE], value |-> TRUE,
          caught |-> FALSE]
    ELSE [w |-> b.w, value |-> FALSE, caught |-> FALSE]

\* CoordinatorAgent.process_documents
CoordinatorProcessDocuments(w, file_paths, encode_ok) ==
    LET t == GenerateTraceId(w)
        a == IngestionProcessDocuments(t.w, file_paths, t.trace_id)
        b == RetrievalProcessIngestionMessage(a.w, t.trace_id, encode_ok)
    IN  CoordinatorBuildOutcome(b)

\* a coordinator that takes every question
NotReady_Never(w) == FALSE

\* the guard of answer_question: not self.documents_processed
NotReady(w) == ~w.documents_processed

\* the top_k answer_question asks for
AnswerTopK == 5

\* an answer_question whose except branch also drops readiness
CoordinatorAnswerQuestion_ErrorNotReady(w, query, tie, encode_ok, generate_ok) ==
    IF NotReady(w)
    THEN [w |-> w, fault |-> "not_ready",
          value |-> [answer |-> "Please upload and process documents first",
                     sources |-> <<>>,
                     error |-> "No documents processed"]]
    ELSE LET t == GenerateTraceId(w)
             a == RetrievalSearchDocuments(t.w, query, AnswerTopK, t.trace_id, tie,
                                           encode_ok)
             b == LLMGenerateResponse(a.w, query, t.trace_id, generate_ok)
         IN  IF a.raised
             THEN [w |-> [a.w EXCEPT !.documents_processed = FALSE],
                   fault |-> "retrieval",
                   value |-> [answer |-> "I encountered an error", sources |-> <<>>,
                              error |-> "encode failed"]]
             ELSE [w |-> b.w, fault |-> b.fault, value |-> b.value]

\* CoordinatorAgent.answer_question; fault names the branch that produced the
\* result
CoordinatorAnswerQuestion(w, query, tie, encode_ok, generate_ok) ==
    IF NotReady(w)
    THEN [w |-> w, fault |-> "not_ready",
          value |-> [answer |-> "Please upload and process documents first",
                     sources |-> <<>>,
                     error |-> "No documents processed"]]
    ELSE LET t == GenerateTraceId(w)
             a == RetrievalSearchDocuments(t.w, query, AnswerTopK, t.trace_id, tie,
                                           encode_ok)
             b == LLMGenerateResponse(a.w, query, t.trace_id, generate_ok)
         IN  IF a.raised
             THEN [w |-> a.w, fault |-> "retrieval",
                   value |-> [answer |-> "I encountered an error", sources |-> <<>>,
                              error |-> "encode failed"]]
             ELSE [w |-> b.w, fault |-> b.fault, value |-> b.value]

\* IngestionAgent.get_processing_stats
GetProcessingStats(w) ==
    [total_documents |-> Len(w.processed_documents),
     total_chunks |-> Len(AllChunks(w.processed_documents))]

\* RetrievalAgent.get_vector_store_stats
GetVectorStoreStats(w) ==
    IF w.is_initialized THEN GetStats(w) ELSE [status |-> "not_initialized"]

\* CoordinatorAgent.get_system_status
GetSystemStatus(w) ==
    [documents_processed |-> w.documents_processed,
     ingestion_stats |-> GetProcessingStats(w),
     vector_store_stats |-> GetVectorStoreStats(w)]

\* a clear_system that leaves the readiness flag alone
CoordinatorClearSystem_KeepsFlag(w) ==
    [ClearVectorStore(w) EXCEPT !.processed_documents = <<>>,
                                !.message_queue = <<>>]

\* a clear_system that forgets mcp.clear_queue()
CoordinatorClearSystem_KeepsQueue(w) ==
    [ClearVectorStore(w) EXCEPT !.processed_documents = <<>>,
                                !.documents_processed = FALSE]

\* CoordinatorAgent.clear_system
CoordinatorClearSystem(w) ==
    [ClearVectorStore(w) EXCEPT !.processed_documents = <<>>,
                                !.documents_processed = FALSE,
                                !.message_queue = <<>>]

(***************************************************************************)
(* State.                                                                  *)
(***************************************************************************)
VARIABLES
    index,               \* VectorStore.index: the vectors added, in order
    chunks,              \* VectorStore.chunks
    metadata,            \* VectorStore.metadata
    faiss_tie,           \* how the FAISS build orders equal scores
    processed_documents, \* IngestionAgent.processed_documents
    is_initialized,      \* RetrievalAgent.is_initialized
    documents_processed, \* CoordinatorAgent.documents_processed
    llm_calls,           \* calls of the text generator made so far
    message_queue,       \* mcp.message_queue
    message_history,     \* mcp.message_history
    trace_counter,       \* how many trace ids generate_trace_id has drawn
    sessions,            \* st.session_state of each browser session, and where
                         \* the session's script run is inside process_documents
    op,     \* the call being made or last made: [name |-> ..., arguments]
    ret     \* what that call returned

busVars == <<message_queue, message_history, trace_counter>>

storeVars == <<index, chunks, metadata, faiss_tie>>

agentVars == <<processed_documents, is_initialized, documents_processed, llm_calls>>

vars == <<message_queue, message_history, trace_counter,
          index, chunks, metadata, faiss_tie,
          processed_documents, is_initialized, documents_processed, llm_calls,
          sessions, op, ret>>

\* the process state as the record the agents' functions work on
W == [message_queue |-> message_queue, message_history |-> message_history,
      trace_counter |-> trace_counter,
      index |-> index, chunks |-> chunks, metadata |-> metadata,
      processed_documents |-> processed_documents,
      is_initialized |-> is_initialized,
      documents_processed |-> documents_processed,
      llm_calls |-> llm_calls]

\* the process state becomes w
Becomes(w) ==
    /\ message_queue' = w.message_queue
    /\ message_history' = w.message_history
    /\ trace_counter' = w.trace_counter
    /\ index' = w.index
    /\ chunks' = w.chunks
    /\ metadata' = w.metadata
    /\ processed_documents' = w.processed_documents
    /\ is_initialized' = w.is_initialized
    /\ documents_processed' = w.documents_processed
    /\ llm_calls' = w.llm_calls

NoRet == [kind |-> "none"]

RetNone == [kind |-> "None"]

\* MCPProtocol.__init__
BusInit ==
    /\ message_queue = <<>>
    /\ message_history = <<>>
    /\ trace_counter = 0

\* VectorStore.__init__
StoreInit ==
    /\ index = <<>>
    /\ chunks = <<>>
    /\ metadata = <<>>

\* IngestionAgent.__init__, RetrievalAgent.__init__, CoordinatorAgent.__init__
AgentsInit ==
    /\ processed_documents = <<>>
    /\ is_initialized = FALSE
    /\ documents_processed = FALSE
    /\ llm_calls = 0

\* the browser sessions served by the one process
Sessions == {"s1", "s2"}

\* streamlit_app.py: the session state a new session starts with; pc says
\* that no script run of the session is inside coordinator.process_documents
SessionInit ==
    sessions = [s \in Sessions |->
                  [processing |-> FALSE, documents_uploaded |-> FALSE,
                   pc |-> "idle", file_paths |-> <<>>, trace_id |-> NoTrace]]

(***************************************************************************)
(* The chunker on its own: Init draws the arguments, the action applies    *)
(* _create_chunks to them.                                                 *)
(***************************************************************************)
Texts(n) == UNION {[1..k -> Chars] : k \in 0..n}

ChunkInit ==
    /\ op \in [name : {"_create_chunks"},
               content : Texts(MaxContentLen),
               chunk_size : 1..MaxChunkParam,
               overlap : 0..MaxChunkParam]
    /\ ret = NoRet
    /\ BusInit
    /\ StoreInit
    /\ AgentsInit
    /\ SessionInit
    /\ faiss_tie = "lower_first"

CallCreateChunks ==
    /\ op.name = "_create_chunks"
    /\ ret = NoRet
    /\ ret' = [kind |-> "chunks"] @@ CreateChunks(op.content, op.chunk_size, op.overlap)
    /\ UNCHANGED <<op, busVars, storeVars, agentVars, sessions>>

ChunkNext == CallCreateChunks

SpecChunk == ChunkInit /\ [][ChunkNext]_vars

(***************************************************************************)
(* The bus on its own: any agent may send to any agent, receive and clear  *)
(* in any order.                                                           *)
(***************************************************************************)
BusSenders == {"IngestionAgent", "RetrievalAgent"}

BusReceivers == {"RetrievalAgent", "CoordinatorAgent"}

BusTraces == {NoTrace, 1}

BusOnlyInit ==
    /\ BusInit
    /\ StoreInit
    /\ AgentsInit
    /\ SessionInit
    /\ faiss_tie = "lower_first"
    /\ op = [name |-> "__init__"]
    /\ ret = NoRet

CallSend(sender, receiver, trace_id) ==
    /\ Len(message_history) < MaxBusMsgs
    /\ LET r == SendMessage(message_queue, message_history, trace_counter,
                            sender, receiver, "NOTE", [text |-> "x"], trace_id)
       IN  /\ message_queue' = r.message_queue
           /\ message_history' = r.message_history
           /\ trace_counter' = r.trace_counter
           /\ ret' = [kind |-> "trace_id", trace_id |-> r.trace_id]
    /\ op' = [name |-> "send_message", sender |-> sender, receiver |-> receiver,
              trace_id |-> trace_id]
    /\ UNCHANGED <<storeVars, agentVars, sessions>>

CallReceive(agent_name) ==
    /\ LET r == ReceiveMessage(message_queue, agent_name)
       IN  /\ message_queue' = r.message_queue
           /\ ret' = IF r.found THEN [kind |-> "message", message |-> r.message]
                     ELSE RetNone
    /\ op' = [name |-> "receive_message", agent_name |-> agent_name]
    /\ UNCHANGED <<message_history, trace_counter, storeVars, agentVars, sessions>>

\* MCPProtocol.clear_queue
CallClearQueue ==
    /\ message_queue' = <<>>
    /\ op' = [name |-> "clear_queue"]
    /\ ret' = RetNone
    /\ UNCHANGED <<message_history, trace_counter, storeVars, agentVars, sessions>>

\* MCPProtocol.get_message_history
CallGetMessageHistory(trace_id) ==
    /\ ret' = [kind |-> "history",
               messages |-> GetMessageHistory(message_history, trace_id)]
    /\ op' = [name |-> "get_message_history", trace_id |-> trace_id]
    /\ UNCHANGED <<busVars, storeVars, agentVars, sessions>>

BusNext ==
    \/ \E s \in BusSenders, r \in BusReceivers, t \in BusTraces : CallSend(s, r, t)
    \/ \E a \in BusReceivers : CallReceive(a)
    \/ CallClearQueue
    \/ \E t \in BusTraces \cup {2} : CallGetMessageHistory(t)

SpecBus == BusOnlyInit /\ [][BusNext]_vars

(***************************************************************************)
(* The vector store on its own: add_documents on batches of parsed         *)
(* documents, search with any top_k, clear.                                *)
(***************************************************************************)
Queries == {<<"a">>, <<"b", " ", "a">>}

ParsedDocuments == {IngestFile(path) : path \in FilePaths}

StoreOnlyInit ==
    /\ BusInit
    /\ StoreInit
    /\ AgentsInit
    /\ SessionInit
    /\ faiss_tie \in FaissTieOrders
    /\ op = [name |-> "__init__"]
    /\ ret = NoRet

CallAddDocuments(documents, encode_ok) ==
    /\ Len(chunks) + Len(AllChunks(documents)) <= MaxIndex
    /\ LET r == AddDocuments(index, chunks, metadata, documents, encode_ok)
       IN  /\ index' = r.index
           /\ chunks' = r.chunks
           /\ metadata' = r.metadata
           /\ ret' = [kind |-> "add_documents", raised |-> r.raised]
    /\ op' = [name |-> "add_documents", documents |-> documents]
    /\ UNCHANGED <<busVars, faiss_tie, agentVars, sessions>>

CallSearch(query, top_k, encode_ok) ==
    /\ LET r == Search(index, chunks, metadata, query, top_k, faiss_tie, encode_ok)
       IN  ret' = [kind |-> "search", raised |-> r.raised, results |-> r.results]
    /\ op' = [name |-> "search", query |-> query, top_k |-> top_k]
    /\ UNCHANGED <<busVars, storeVars, agentVars, sessions>>

\* VectorStore.clear
CallStoreClear ==
    /\ index' = <<>>
    /\ chunks' = <<>>
    /\ metadata' = <<>>
    /\ op' = [name |-> "clear"]
    /\ ret' = RetNone
    /\ UNCHANGED <<busVars, faiss_tie, agentVars, sessions>>

StoreNext ==
    \/ \E documents \in SeqsUpTo(ParsedDocuments, MaxBatchDocs), encode_ok \in BOOLEAN :
          CallAddDocuments(documents, encode_ok)
    \/ \E query \in Queries, top_k \in 1..MaxTopK, encode_ok \in BOOLEAN :
          CallSearch(query, top_k, encode_ok)
    \/ CallStoreClear

SpecStore == StoreOnlyInit /\ [][StoreNext]_vars

(***************************************************************************)
(* The response agent on its own: envelopes of either type are sent to it  *)
(* or to the coordinator, and generate_response is called at any time.     *)
(***************************************************************************)
ResponseReceivers == {"LLMResponseAgent", "CoordinatorAgent"}

ResponseTypes == {"CONTEXT_RESPONSE", "RETRIEVAL_READY"}

\* the contexts an envelope may carry: none, or one retrieved chunk
ResponseContexts ==
    {<<>>, <<[text |-> <<"a">>, filename |-> "notes.txt", score |-> 1, chunk_id |-> 0]>>}

\* mcp.send_message by another agent
SendToResponse(receiver, message_type, retrieved_context) ==
    /\ Len(message_history) < MaxBusMsgs
    /\ Becomes(Send(W, "RetrievalAgent", receiver, message_type,
                    [retrieved_context |-> retrieved_context, query |-> <<"a">>,
                     total_results |-> Len(retrieved_context)],
                    1))
    /\ op' = [name |-> "send_message", sender |-> "RetrievalAgent",
              receiver |-> receiver, trace_id |-> 1]
    /\ ret' = [kind |-> "trace_id", trace_id |-> 1]
    /\ UNCHANGED <<faiss_tie, sessions>>

\* LLMResponseAgent.generate_response
CallGenerateResponse(query, generate_ok) ==
    /\ \/ Len(message_history) < MaxBusMsgs
       \/ ~IsContextResponse(ReceiveMessage(message_queue, "LLMResponseAgent"))
    /\ LET r == LLMGenerateResponse(W, query, 1, generate_ok)
       IN  /\ Becomes(r.w)
           /\ ret' = [kind |-> "generate_response", response |-> r.value,
                      fault |-> r.fault]
    /\ op' = [name |-> "generate_response", query |-> query]
    /\ UNCHANGED <<faiss_tie, sessions>>

ResponseNext ==
    \/ \E receiver \in ResponseReceivers, message_type \in ResponseTypes,
          retrieved_context \in ResponseContexts :
          SendToResponse(receiver, message_type, retrieved_context)
    \/ \E query \in Queries, generate_ok \in BOOLEAN :
          CallGenerateResponse(query, generate_ok)

SpecResponse == BusOnlyInit /\ [][ResponseNext]_vars

(***************************************************************************)
(* The whole program in the single-threaded reference flow: a caller makes *)
(* one top-level call of the coordinator at a time.  The environment       *)
(* decides whether the embedding model (encode_ok) and the text generator  *)
(* (generate_ok) answer or raise.                                          *)
(***************************************************************************)
\* the files submitted so far: the history holds one INGESTION_COMPLETE
\* envelope per ingestion run
RECURSIVE FilesSubmitted(_)
FilesSubmitted(history) ==
    IF history = <<>> THEN 0
    ELSE (IF Head(history).type = "INGESTION_COMPLETE"
          THEN Head(history).payload.total_documents ELSE 0)
         + FilesSubmitted(Tail(history))

WorkDone == trace_counter + FilesSubmitted(message_history)

Init ==
    /\ BusInit
    /\ StoreInit
    /\ AgentsInit
    /\ SessionInit
    /\ faiss_tie \in FaissTieOrders
    /\ op = [name |-> "__init__"]
    /\ ret = NoRet

ProcessDocuments(file_paths, encode_ok) ==
    /\ WorkDone + 1 + Len(file_paths) <= MaxWork
    /\ Len(chunks) + Len(AllChunks(IngestFiles(file_paths))) <= MaxIndex
    /\ LET r == CoordinatorProcessDocuments(W, file_paths, encode_ok)
       IN  /\ Becomes(r.w)
           /\ ret' = [kind |-> "process_documents", value |-> r.value,
                      caught |-> r.caught]
    /\ op' = [name |-> "process_documents", file_paths |-> file_paths]
    /\ UNCHANGED <<faiss_tie, sessions>>

AnswerQuestion(query, encode_ok, generate_ok) ==
    /\ WorkDone + 1 <= MaxWork \/ NotReady(W)
    /\ LET r == CoordinatorAnswerQuestion(W, query, faiss_tie, encode_ok, generate_ok)
       IN  /\ Becomes(r.w)
           /\ ret' = [kind |-> "answer_question", response |-> r.value,
                      fault |-> r.fault]
    /\ op' = [name |-> "answer_question", query |-> query]
    /\ UNCHANGED <<faiss_tie, sessions>>

ClearSystem ==
    /\ Becomes(CoordinatorClearSystem(W))
    /\ op' = [name |-> "clear_system"]
    /\ ret' = RetNone
    /\ UNCHANGED <<faiss_tie, sessions>>

Next ==
    \/ \E file_paths \in SeqsUpTo(FilePaths, MaxFiles), encode_ok \in BOOLEAN :
          ProcessDocuments(file_paths, encode_ok)
    \/ \E query \in Queries, encode_ok \in BOOLEAN, generate_ok \in BOOLEAN :
          AnswerQuestion(query, encode_ok, generate_ok)
    \/ ClearSystem

Spec == Init /\ [][Next]_vars

(***************************************************************************)
(* The process serving several browser sessions.  Streamlit runs each      *)
(* session's script in a thread of its own and every session imports the   *)
(* same coordinator, so the script runs interleave at the calls            *)
(* coordinator.process_documents makes: drawing the trace id, the          *)
(* ingestion agent's step, the retrieval agent's step.  Questions and      *)
(* clears are taken in one step.                                           *)
(***************************************************************************)
\* the sessions whose script run is inside coordinator.process_documents
InFlight == {s \in Sessions : sessions[s].pc # "idle"}

RECURSIVE PendingFiles(_)
\* files handed to process_documents whose chunks are not yet in the index
PendingFiles(ss) ==
    IF ss = {} THEN <<>>
    ELSE LET s == CHOOSE x \in ss : TRUE
         IN  sessions[s].file_paths \o PendingFiles(ss \ {s})

RECURSIVE QueuedChunks(_)
\* chunks in INGESTION_COMPLETE envelopes still in the live queue
QueuedChunks(queue) ==
    IF queue = <<>> THEN 0
    ELSE (IF Head(queue).type = "INGESTION_COMPLETE"
          THEN Head(queue).payload.total_chunks ELSE 0)
         + QueuedChunks(Tail(queue))

ConcInit ==
    /\ BusInit
    /\ StoreInit
    /\ AgentsInit
    /\ SessionInit
    /\ faiss_tie \in FaissTieOrders
    /\ op = [name |-> "__init__"]
    /\ ret = NoRet

\* the Process Documents button of session s, up to the trace id drawn by
\* coordinator.process_documents
PressProcess(s, file_paths) ==
    /\ file_paths # <<>>
    /\ ~sessions[s].processing
    /\ sessions[s].pc = "idle"
    /\ LET ingesting == {x \in Sessions : sessions[x].pc = "ingestion"}
       IN  /\ WorkDone + Len(PendingFiles(ingesting)) + 1 + Len(file_paths) <= MaxWork
           /\ Len(chunks) + QueuedChunks(message_queue)
                + Len(AllChunks(IngestFiles(PendingFiles(ingesting) \o file_paths)))
                <= MaxIndex
    /\ LET t == GenerateTraceId(W)
       IN  /\ Becomes(t.w)
           /\ sessions' = [sessions EXCEPT ![s] =
                             [@ EXCEPT !.processing = TRUE, !.pc = "ingestion",
                                       !.file_paths = file_paths,
                                       !.trace_id = t.trace_id]]
    /\ op' = [name |-> "press_process", session |-> s, file_paths |-> file_paths]
    /\ ret' = NoRet
    /\ UNCHANGED faiss_tie

\* session s's run reaches ingestion_agent.process_documents
IngestionStep(s) ==
    /\ sessions[s].pc = "ingestion"
    /\ LET a == IngestionProcessDocuments(W, sessions[s].file_paths, sessions[s].trace_id)
       IN  Becomes(a.w)
    /\ sessions' = [sessions EXCEPT ![s].pc = "retrieval", ![s].file_paths = <<>>]
    /\ op' = [name |-> "ingestion_step", session |-> s]
    /\ ret' = NoRet
    /\ UNCHANGED faiss_tie

\* session s's run reaches retrieval_agent.process_ingestion_message and
\* returns to the script, which records the outcome in its session state
RetrievalStep(s, encode_ok) ==
    /\ sessions[s].pc = "retrieval"
    /\ LET b == RetrievalProcessIngestionMessage(W, sessions[s].trace_id, encode_ok)
           r == CoordinatorBuildOutcome(b)
       IN  /\ Becomes(r.w)
           /\ sessions' = [sessions EXCEPT ![s] =
                             [@ EXCEPT !.processing = FALSE, !.pc = "idle",
                                       !.trace_id = NoTrace,
                                       !.documents_uploaded = IF r.value THEN TRUE ELSE @]]
           /\ ret' = [kind |-> "process_documents", value |-> r.value,
                      caught |-> r.caught]
    /\ op' = [name |-> "retrieval_step", session |-> s]
    /\ UNCHANGED faiss_tie

\* the Clear System button of session s
PressClear(s) ==
    /\ sessions[s].pc = "idle"
    /\ Becomes(CoordinatorClearSystem(W))
    /\ sessions' = [sessions EXCEPT ![s].documents_uploaded = FALSE]
    /\ op' = [name |-> "press_clear", session |-> s]
    /\ ret' = RetNone
    /\ UNCHANGED faiss_tie

\* the question form of session s
SubmitQuestion(s, query, encode_ok, generate_ok) ==
    /\ sessions[s].pc = "idle"
    /\ sessions[s].documents_uploaded
    /\ WorkDone + Len(PendingFiles({x \in Sessions : sessions[x].pc = "ingestion"})) + 1
         <= MaxWork \/ NotReady(W)
    /\ LET r == CoordinatorAnswerQuestion(W, query, faiss_tie, encode_ok, generate_ok)
       IN  Becomes(r.w) /\ ret' = [kind |-> "answer_question", response |-> r.value,
                                   fault |-> r.fault]
    /\ op' = [name |-> "submit_question", session |-> s, query |-> query]
    /\ UNCHANGED <<faiss_tie, sessions>>

ConcNext ==
    \/ \E s \in Sessions, file_paths \in SeqsUpTo(FilePaths, MaxFiles) :
          PressProcess(s, file_paths)
    \/ \E s \in Sessions : IngestionStep(s)
    \/ \E s \in Sessions, encode_ok \in BOOLEAN : RetrievalStep(s, encode_ok)
    \/ \E s \in Sessions : PressClear(s)
    \/ \E s \in Sessions, query \in Queries, encode_ok \in BOOLEAN,
          generate_ok \in BOOLEAN :
          SubmitQuestion(s, query, encode_ok, generate_ok)

SpecConc == ConcInit /\ [][ConcNext]_vars

(***************************************************************************)
(* The vector store called from two script threads at once: one session's  *)
(* run inside add_documents while another's is inside search.  The store   *)
(* takes no lock, so each call is a sequence of steps on the shared index, *)
(* chunks and metadata: add_documents encodes, then index.add, then        *)
(* chunks.extend, then metadata.extend; search tests ntotal and encodes,   *)
(* then index.search, then walks the hits.  sessions[s] holds the thread's *)
(* position and locals, and in views the store contents a search of s may  *)
(* be ordered against: those at its start and those after each whole batch *)
(* added since.  One add_documents runs at a time.                         *)
(***************************************************************************)
ThreadIdle ==
    [pc |-> "idle", documents |-> <<>>, query |-> <<>>, top_k |-> 0,
     hits |-> <<>>, views |-> {}]

RaceInit ==
    /\ BusInit
    /\ StoreInit
    /\ AgentsInit
    /\ sessions = [s \in Sessions |-> ThreadIdle]
    /\ faiss_tie \in FaissTieOrders
    /\ op = [name |-> "__init__"]
    /\ ret = NoRet

Adding == {s \in Sessions : sessions[s].pc \in {"add_encoded", "add_indexed", "add_chunks"}}

Searching == {s \in Sessions : sessions[s].pc \in {"search_encoded", "search_found"}}

\* the store without the part of a batch an add_documents in flight has
\* written so far (metadata is extended last)
StoreBefore ==
    [index |-> SubSeq(index, 1, Len(metadata)),
     chunks |-> SubSeq(chunks, 1, Len(metadata)),
     metadata |-> metadata]

\* the store once the batch is in
StoreAfter(documents) ==
    LET b == StoreBefore
        r == AddDocuments(b.index, b.chunks, b.metadata, documents, TRUE)
    IN  [index |-> r.index, chunks |-> r.chunks, metadata |-> r.metadata]

\* add_documents up to the normalised embeddings
AddEncode(s, documents, encode_ok) ==
    /\ sessions[s].pc = "idle"
    /\ Adding = {}
    /\ Len(chunks) + Len(AllChunks(documents)) <= MaxIndex
    /\ IF AllChunks(documents) = <<>> \/ ~encode_ok
       THEN /\ ret' = [kind |-> "add_documents",
                       raised |-> AllChunks(documents) # <<>>]
            /\ UNCHANGED sessions
       ELSE /\ ret' = NoRet
            /\ sessions' = [t \in Sessions |->
                              IF t = s
                              THEN [sessions[t] EXCEPT !.pc = "add_encoded",
                                                       !.documents = documents]
                              ELSE IF t \in Searching
                              THEN [sessions[t] EXCEPT
                                      !.views = @ \cup {StoreAfter(documents)}]
                              ELSE sessions[t]]
    /\ op' = [name |-> "add_encode", session |-> s, documents |-> documents]
    /\ UNCHANGED <<busVars, storeVars, agentVars>>

\* self.index.add(embeddings)
AddIndex(s) ==
    /\ sessions[s].pc = "add_encoded"
    /\ index' = index \o [i \in 1..Len(AllChunks(sessions[s].documents)) |->
                            Normalize(Embed(AllChunks(sessions[s].documents)[i]))]
    /\ sessions' = [sessions EXCEPT ![s].pc = "add_indexed"]
    /\ op' = [name |-> "add_index", session |-> s]
    /\ ret' = NoRet
    /\ UNCHANGED <<busVars, chunks, metadata, faiss_tie, agentVars>>

\* self.chunks.extend(all_chunks)
AddChunks(s) ==
    /\ sessions[s].pc = "add_indexed"
    /\ chunks' = chunks \o AllChunks(sessions[s].documents)
    /\ sessions' = [sessions EXCEPT ![s].pc = "add_chunks"]
    /\ op' = [name |-> "add_chunks", session |-> s]
    /\ ret' = NoRet
    /\ UNCHANGED <<busVars, index, metadata, faiss_tie, agentVars>>

\* self.metadata.extend(all_metadata) and the return
AddMetadata(s) ==
    /\ sessions[s].pc = "add_chunks"
    /\ metadata' = metadata \o AllMetadata(sessions[s].documents)
    /\ sessions' = [sessions EXCEPT ![s] = ThreadIdle]
    /\ op' = [name |-> "add_return", session |-> s]
    /\ ret' = [kind |-> "add_documents", raised |-> FALSE]
    /\ UNCHANGED <<busVars, index, chunks, faiss_tie, agentVars>>

\* search up to the normalised query embedding
SearchEncode(s, query, top_k, encode_ok) ==
    /\ sessions[s].pc = "idle"
    /\ IF Len(index) = 0 \/ ~encode_ok
       THEN /\ ret' = [kind |-> "search", raised |-> Len(index) # 0,
                       results |-> <<>>]
            /\ op' = [name |-> "search_return", session |-> s, query |-> query,
                      top_k |-> top_k, encode_ok |-> encode_ok,
                      views |-> {StoreBefore}
                                  \cup {StoreAfter(sessions[a].documents) : a \in Adding}]
            /\ UNCHANGED sessions
       ELSE /\ ret' = NoRet
            /\ op' = [name |-> "search_encode", session |-> s]
            /\ sessions' = [sessions EXCEPT ![s] =
                              [@ EXCEPT !.pc = "search_encoded", !.query = query,
                                        !.top_k = top_k,
                                        !.views = {StoreBefore} \cup
                                            {StoreAfter(sessions[a].documents) :
                                                a \in Adding}]]
    /\ UNCHANGED <<busVars, storeVars, agentVars>>

\* self.index.search(query_embedding, top_k)
SearchIndex(s) ==
    /\ sessions[s].pc = "search_encoded"
    /\ sessions' = [sessions EXCEPT
                      ![s].pc = "search_found",
                      ![s].hits = FaissSearch(index, Normalize(Embed(sessions[s].query)),
                                              sessions[s].top_k, faiss_tie)]
    /\ op' = [name |-> "search_index", session |-> s]
    /\ ret' = NoRet
    /\ UNCHANGED <<busVars, storeVars, agentVars>>

\* list[idx] raises IndexError outside -len(list) <= idx < len(list)
PyInRange(seq, idx) == -Len(seq) <= idx /\ idx < Len(seq)

\* a hit that passes the test on len(self.chunks) and for which
\* self.chunks[idx] or self.metadata[idx] raises IndexError
HitRaises(hits) ==
    \E i \in 1..Len(hits) :
        /\ ValidIndex(hits[i].idx, Len(chunks))
        /\ ~(PyInRange(chunks, hits[i].idx) /\ PyInRange(metadata, hits[i].idx))

\* the loop over the hits and the return
SearchCollect(s) ==
    /\ sessions[s].pc = "search_found"
    /\ ret' = IF HitRaises(sessions[s].hits)
              THEN [kind |-> "search", raised |-> TRUE, results |-> <<>>]
              ELSE [kind |-> "search", raised |-> FALSE,
                    results |-> SearchResults(sessions[s].hits, chunks, metadata)]
    /\ op' = [name |-> "search_return", session |-> s,
              query |-> sessions[s].query, top_k |-> sessions[s].top_k,
              encode_ok |-> TRUE, views |-> sessions[s].views]
    /\ sessions' = [sessions EXCEPT ![s] = ThreadIdle]
    /\ UNCHANGED <<busVars, storeVars, agentVars>>

RaceNext ==
    \/ \E s \in Sessions, documents \in SeqsUpTo(ParsedDocuments, MaxBatchDocs),
          encode_ok \in BOOLEAN :
          AddEncode(s, documents, encode_ok)
    \/ \E s \in Sessions : AddIndex(s)
    \/ \E s \in Sessions : AddChunks(s)
    \/ \E s \in Sessions : AddMetadata(s)
    \/ \E s \in Sessions, query \in Queries, top_k \in 1..MaxTopK,
          encode_ok \in BOOLEAN :
          SearchEncode(s, query, top_k, encode_ok)
    \/ \E s \in Sessions : SearchIndex(s)
    \/ \E s \in Sessions : SearchCollect(s)

SpecRace == RaceInit /\ [][RaceNext]_vars

(***************************************************************************)
(* Claims about the chunker (checked under SpecChunk).                     *)
(***************************************************************************)
CeilDiv(a, b) == (a + b - 1) \div b

RECURSIVE Flatten(_)
Flatten(seqs) == IF seqs = <<>> THEN <<>> ELSE Head(seqs) \o Flatten(Tail(seqs))

\* _create_chunks has returned for a configuration with chunk_size > overlap
Chunked == ret.kind = "chunks" /\ op.chunk_size > op.overlap

ChunkWords == Split(op.content)

ChunkStride == op.chunk_size - op.overlap

\* C9 as stated: a text of N > 0 tokens gives
\* ceil(max(N - overlap, 1) / (chunkSize - overlap)) chunks, an empty or
\* whitespace-only text gives none.
C9_CountAsStated ==
    Chunked =>
        /\ ~ret.raised
        /\ Len(ret.chunks) =
              IF Len(ChunkWords) > 0
              THEN CeilDiv(Max(Len(ChunkWords) - op.overlap, 1), ChunkStride)
              ELSE 0

\* C9 amended: a text of N > 0 tokens gives ceil(N / (chunkSize - overlap))
\* chunks (one per window start below N), an empty or whitespace-only text
\* gives none.
C9_ChunkCount ==
    Chunked =>
        /\ ~ret.raised
        /\ Len(ret.chunks) =
              IF Len(ChunkWords) > 0 THEN CeilDiv(Len(ChunkWords), ChunkStride) ELSE 0

\* a text whose last window lies wholly inside the previous window's overlap
C9_Witness ==
    /\ Chunked
    /\ op.overlap >= 1
    /\ Len(ChunkWords) > ChunkStride
    /\ Len(ChunkWords) - op.overlap <= ChunkStride
    /\ Len(ret.chunks) = 2

\* C10: chunk j (from 0) is the tokens [j*stride, j*stride + chunkSize) of the
\* input clipped to its length, every chunk is non-empty, and the first
\* `stride` tokens of each chunk, concatenated, are the input's tokens.
C10_ChunkWindows ==
    Chunked =>
        /\ \A j \in 1..Len(ret.chunks) :
              /\ ret.chunks[j] # <<>>
              /\ Split(ret.chunks[j]) =
                    Slice(ChunkWords, (j - 1) * ChunkStride,
                          (j - 1) * ChunkStride + op.chunk_size)
        /\ Flatten([j \in 1..Len(ret.chunks) |->
                      Slice(Split(ret.chunks[j]), 0, ChunkStride)]) = ChunkWords

\* three overlapping windows over distinct tokens separated by runs of blanks
C10_Witness ==
    /\ Chunked
    /\ op.overlap >= 1
    /\ Len(ret.chunks) >= 3
    /\ Len(ChunkWords) < Len(Split(Flatten(
            [j \in 1..Len(ret.chunks) |-> ret.chunks[j] \o <<" ">>])))
    /\ \E i, j \in 1..Len(ChunkWords) : ChunkWords[i] # ChunkWords[j]

\* C11: for a text with at least one token, every configuration with
\* overlap >= chunkSize (equal or larger) makes the chunker raise; it never
\* returns a chunk list.
C11_OverlapRejected ==
    (ret.kind = "chunks" /\ op.overlap >= op.chunk_size /\ Len(ChunkWords) > 0) =>
        ret.raised

(***************************************************************************)
(* Claims about the bus (checked under SpecBus).                           *)
(***************************************************************************)
QueuedFor(agent_name) ==
    {i \in 1..Len(message_queue) : message_queue[i].receiver = agent_name}

C1_ReceiveStep ==
    op'.name = "receive_message" =>
        /\ message_history' = message_history
        /\ IF QueuedFor(op'.agent_name) = {}
           THEN ret' = RetNone /\ message_queue' = message_queue
           ELSE \E i \in QueuedFor(op'.agent_name) :
                   /\ \A j \in QueuedFor(op'.agent_name) :
                         message_queue[i].timestamp <= message_queue[j].timestamp
                   /\ ret' = [kind |-> "message", message |-> message_queue[i]]
                   /\ message_queue' = SeqRemove(message_queue, i)

\* C1: receive_message(R) removes and returns the envelope for R that was sent
\* earliest among those in the live queue, whoever sent it and whatever is
\* queued for other receivers; it returns None, with queue and history
\* unchanged, exactly when the live queue holds no envelope for R.
C1_BusFifo == [][C1_ReceiveStep]_vars

\* a receive returned an envelope while an earlier envelope for another
\* receiver and a later one for the same receiver, from another sender, stay
\* queued
C1_Witness ==
    /\ op.name = "receive_message"
    /\ ret.kind = "message"
    /\ \E i, j \in 1..Len(message_queue) :
          /\ message_queue[i].receiver # op.agent_name
          /\ message_queue[i].timestamp < ret.message.timestamp
          /\ message_queue[j].receiver = op.agent_name
          /\ message_queue[j].sender # ret.message.sender
          /\ message_queue[j].timestamp > ret.message.timestamp

RECURSIVE IsSubseq(_, _)
\* a is b with some elements left out
IsSubseq(a, b) ==
    IF a = <<>> THEN TRUE
    ELSE IF b = <<>> THEN FALSE
    ELSE IF Head(a) = Head(b) THEN IsSubseq(Tail(a), Tail(b))
    ELSE IsSubseq(a, Tail(b))

C15_BusStep ==
    /\ IsSubseq(message_queue, message_history)
    /\ IsSubseq(message_queue', message_history')
    /\ op'.name = "send_message" =>
          /\ Len(message_history') = Len(message_history) + 1
          /\ LET sent == message_history'[Len(message_history')]
             IN  /\ message_history' = Append(message_history, sent)
                 /\ message_queue' = Append(message_queue, sent)
                 /\ sent.sender = op'.sender
                 /\ sent.receiver = op'.receiver
                 /\ sent.trace_id = ret'.trace_id
    /\ op'.name \in {"receive_message", "clear_queue", "get_message_history"} =>
          message_history' = message_history
    /\ op'.name = "get_message_history" =>
          IF op'.trace_id = NoTrace THEN ret'.messages = message_history
          ELSE /\ IsSubseq(ret'.messages, message_history)
               /\ \A i \in 1..Len(ret'.messages) :
                     ret'.messages[i].trace_id = op'.trace_id
               /\ Len(ret'.messages) =
                     Cardinality({i \in 1..Len(message_history) :
                                    message_history[i].trace_id = op'.trace_id})

\* C15: every send_message appends one envelope to the end of the history
\* and of the live queue; receive_message and clear_queue leave the history
\* alone; get_message_history(t) is the envelopes of the history with trace
\* id t, in send order; the live queue is always a subsequence of the
\* history.
C15_HistoryAppendOnly == [][C15_BusStep]_vars

\* the history of one trace id read while envelopes of other trace ids are
\* recorded and part of the history has left the live queue
C15_Witness ==
    /\ op.name = "get_message_history"
    /\ op.trace_id # NoTrace
    /\ ret.messages # <<>>
    /\ Len(ret.messages) < Len(message_history)
    /\ message_queue # <<>>
    /\ Len(message_queue) < Len(message_history)

\* the envelopes in a sequence of envelopes
Envelopes(seq) == {seq[i] : i \in 1..Len(seq)}

C16_DeliveryStep ==
    /\ \A i, j \in 1..Len(message_queue) : message_queue[i] = message_queue[j] => i = j
    /\ \A m \in Envelopes(message_history) \ Envelopes(message_queue) :
          m \notin Envelopes(message_queue')
    /\ (op'.name = "receive_message" /\ ret'.kind = "message") =>
          /\ ret'.message \in Envelopes(message_queue)
          /\ ret'.message.receiver = op'.agent_name
          /\ ret'.message \notin Envelopes(message_queue')
          /\ ret'.message \in Envelopes(message_history')
    /\ op'.name = "clear_queue" =>
          /\ message_queue' = <<>>
          /\ Envelopes(message_queue) \subseteq Envelopes(message_history')

\* C16: an envelope returned by receive_message was in the live queue, is
\* addressed to the name the call was made for, and is out of the live queue
\* afterwards; an envelope that has left the live queue (returned or cleared)
\* never comes back and stays in the history; so no envelope is returned
\* twice.
C16_AtMostOnce == [][C16_DeliveryStep]_vars

\* a second delivery to the same receiver: an earlier envelope for it has
\* already left the live queue and a later one is still queued
C16_Witness ==
    /\ op.name = "receive_message"
    /\ ret.kind = "message"
    /\ \E m \in Envelopes(message_history) \ Envelopes(message_queue) :
          m.receiver = op.agent_name /\ m.timestamp < ret.message.timestamp
    /\ \E m \in Envelopes(message_queue) : m.receiver = op.agent_name

(***************************************************************************)
(* Claims about the vector store (checked under SpecStore).                *)
(***************************************************************************)
\* VectorStore.search has returned a result list
Searched == op.name = "search" /\ ret.kind = "search" /\ ~ret.raised

Injective(f) == \A x, y \in DOMAIN f : f[x] = f[y] => x = y

\* the score of stored entry i for the query of the search just made
EntryScore(i) == Dot(Normalize(Embed(op.query)), index[i])

\* C7: search(q, k) on an index of n entries returns at most min(k, n)
\* results, each a distinct stored entry, and every stored entry exactly once
\* when k > n.
C7_SearchSize ==
    Searched =>
        /\ Len(ret.results) <= Min(op.top_k, Len(chunks))
        /\ \E f \in [1..Len(ret.results) -> 1..Len(chunks)] :
              /\ Injective(f)
              /\ \A r \in 1..Len(ret.results) :
                    /\ ret.results[r].chunk = chunks[f[r]]
                    /\ ret.results[r].metadata = metadata[f[r]]
        /\ op.top_k > Len(chunks) => Len(ret.results) = Len(chunks)

\* C8: search(q, k) returns the k highest-scoring stored entries, best first,
\* the earlier-inserted first among equal scores, each with the text,
\* metadata and score of the entry at its insertion position.
C8_Ranking ==
    Searched =>
        /\ Len(ret.results) = Min(op.top_k, Len(chunks))
        /\ \E f \in [1..Len(ret.results) -> 1..Len(chunks)] :
              /\ Injective(f)
              /\ \A r \in 1..Len(ret.results) :
                    /\ ret.results[r].chunk = chunks[f[r]]
                    /\ ret.results[r].metadata = metadata[f[r]]
                    /\ ret.results[r].score = EntryScore(f[r])
              /\ \A r, t \in 1..Len(ret.results) :
                    r < t => \/ EntryScore(f[r]) > EntryScore(f[t])
                             \/ EntryScore(f[r]) = EntryScore(f[t]) /\ f[r] < f[t]
              /\ \A r \in 1..Len(ret.results) :
                    \A i \in (1..Len(chunks)) \ {f[t] : t \in 1..Len(ret.results)} :
                        \/ EntryScore(f[r]) > EntryScore(i)
                        \/ EntryScore(f[r]) = EntryScore(i) /\ f[r] < i

\* the three stores have one entry per chunk, entry i of each for the same
\* chunk
StoresParallel(idx, chs, mds) ==
    /\ Len(idx) = Len(chs)
    /\ Len(mds) = Len(chs)
    /\ \A i \in 1..Len(chs) :
          /\ idx[i] = Normalize(Embed(chs[i]))
          /\ mds[i].chunk_text = Preview(chs[i], 100)

\* the (filename, chunk id) pairs of a batch, document by document
BatchChunkIds(documents) ==
    Flatten([d \in 1..Len(documents) |->
               [j \in 1..Len(documents[d].chunks) |->
                  [filename |-> documents[d].filename, chunk_id |-> j - 1]]])

C21_StoreStep ==
    /\ StoresParallel(index, chunks, metadata)
    /\ StoresParallel(index', chunks', metadata')
    /\ (op'.name = "add_documents" /\ ret'.raised) =>
          index' = index /\ chunks' = chunks /\ metadata' = metadata
    /\ (op'.name = "add_documents" /\ ~ret'.raised) =>
          LET batch == Flatten([d \in 1..Len(op'.documents) |-> op'.documents[d].chunks])
              ids == BatchChunkIds(op'.documents)
              n == Len(chunks)
          IN  /\ chunks' = chunks \o batch
              /\ SubSeq(index', 1, n) = index
              /\ SubSeq(metadata', 1, n) = metadata
              /\ \A i \in 1..Len(batch) :
                    /\ metadata'[n + i].filename = ids[i].filename
                    /\ metadata'[n + i].chunk_id = ids[i].chunk_id
    /\ op'.name = "search" =>
          index' = index /\ chunks' = chunks /\ metadata' = metadata
    /\ op'.name = "clear" =>
          index' = <<>> /\ chunks' = <<>> /\ metadata' = <<>>

\* C21: after every add_documents (failed ones included), search and clear,
\* the index, the chunk list and the metadata list have the same length and
\* entry i of each is the i-th chunk added since the last clear; an add
\* appends its batch in order and moves no existing entry.
C21_StoresParallel == [][C21_StoreStep]_vars

\* an add_documents that raised on a store that already holds entries
C21_Witness ==
    /\ op.name = "add_documents"
    /\ ret.raised
    /\ Len(index) > 0
    /\ AllChunks(op.documents) # <<>>

(***************************************************************************)
(* Claims about the coordinator in the single-threaded flow (checked under *)
(* Spec).                                                                  *)
(***************************************************************************)
C2_AnswerStep ==
    (op'.name = "answer_question" /\ ~documents_processed) =>
        /\ "error" \in DOMAIN ret'.response
        /\ ret'.response.error = "No documents processed"
        /\ ret'.response.sources = <<>>
        /\ message_queue' = message_queue
        /\ message_history' = message_history
        /\ trace_counter' = trace_counter
        /\ llm_calls' = llm_calls
        /\ UNCHANGED <<storeVars, processed_documents, is_initialized,
                       documents_processed>>

\* C2: answer_question made while documents_processed is false returns the
\* not-ready result (error set, no sources) and touches nothing: queue,
\* history, trace ids, index, generator calls are as before.
C2_NotReadyRejected == [][C2_AnswerStep]_vars

\* a question rejected after a clear that followed a successful ingestion
C2_Witness ==
    /\ op.name = "answer_question"
    /\ ~documents_processed
    /\ ret.response.sources = <<>>
    /\ message_queue = <<>>
    /\ \E i \in 1..Len(message_history) : message_history[i].type = "RETRIEVAL_READY"

\* C3: right after a process_documents that returned True the status reports
\* documents_processed; right after clear_system it reports false, the index
\* count is 0 and every search returns the empty list without raising.
C3_Readiness ==
    /\ (op.name = "process_documents" /\ ret.value = TRUE) =>
          GetSystemStatus(W).documents_processed
    /\ op.name = "clear_system" =>
          /\ ~GetSystemStatus(W).documents_processed
          /\ GetStats(W).total_chunks = 0
          /\ \A query \in Queries, top_k \in 1..MaxTopK, encode_ok \in BOOLEAN :
                Search(index, chunks, metadata, query, top_k, faiss_tie, encode_ok)
                    = [raised |-> FALSE, results |-> <<>>]

\* a clear made after an ingestion had put entries into the index
C3_Witness ==
    /\ op.name = "clear_system"
    /\ \E i \in 1..Len(message_history) :
          /\ message_history[i].type = "RETRIEVAL_READY"
          /\ message_history[i].payload.vector_store_stats.total_chunks > 0

C4_BuildFailureStep ==
    (op'.name = "process_documents" /\ ret'.caught) =>
        /\ ret'.value = FALSE
        /\ index' = index /\ chunks' = chunks /\ metadata' = metadata
        /\ ~documents_processed'
        /\ ~GetSystemStatus(W).documents_processed'

\* C4: when the index build of an ingestion run raises, process_documents
\* returns False, the index holds nothing of the batch, and the coordinator
\* is not ready afterwards (so the next question is rejected), whatever
\* happened before.
C4_BuildFailureNotReady == [][C4_BuildFailureStep]_vars

\* the extraction of this file fails: unsupported extension or unreadable
FailsExtraction(path) == Suffix(path) \notin SupportedFormats \/ ReadFile(path).raised

C5_IngestStep ==
    op'.name = "process_documents" =>
        LET file_paths == op'.file_paths
            n == Len(processed_documents)
            sent == message_history'[Len(message_history) + 1]
        IN  /\ Len(processed_documents') = n + Len(file_paths)
            /\ SubSeq(processed_documents', 1, n) = processed_documents
            /\ \A i \in 1..Len(file_paths) :
                  /\ processed_documents'[n + i].filename = Basename(file_paths[i])
                  /\ FailsExtraction(file_paths[i]) =>
                        /\ processed_documents'[n + i].chunks = <<>>
                        /\ "error" \in DOMAIN processed_documents'[n + i].metadata
                  /\ ~FailsExtraction(file_paths[i]) =>
                        /\ processed_documents'[n + i].chunks # <<>>
                        /\ "error" \notin DOMAIN processed_documents'[n + i].metadata
            /\ Len(message_history') > Len(message_history)
            /\ sent.type = "INGESTION_COMPLETE"
            /\ sent.receiver = "RetrievalAgent"
            /\ sent.payload.processed_documents =
                  SubSeq(processed_documents', n + 1, n + Len(file_paths))
            /\ (\A i \in 1..Len(file_paths) : FailsExtraction(file_paths[i])) =>
                  ~ret'.caught
            /\ ~ret'.caught =>
                  /\ ret'.value = TRUE
                  /\ documents_processed'
                  /\ chunks' = chunks \o AllChunks(sent.payload.processed_documents)
                  /\ Len(index') = Len(chunks')

\* C5: a file whose extraction fails becomes one zero-chunk error document
\* and never fails the batch: INGESTION_COMPLETE is still sent, the index
\* takes the chunks of the other files (none when every file fails, without
\* calling the embedding model), and process_documents returns True with
\* documents_processed set, unless the index build itself raises.
C5_ParseFailureNotFatal == [][C5_IngestStep]_vars

\* an ingestion of a readable and an unreadable file returned True, and so
\* did one whose files all failed
C5_Witness ==
    /\ op.name = "process_documents"
    /\ ret.value = TRUE
    /\ \E i, j \in 1..Len(op.file_paths) :
          FailsExtraction(op.file_paths[i]) /\ ~FailsExtraction(op.file_paths[j])

C12_ClearStep ==
    op'.name = "clear_system" =>
        /\ ~documents_processed'
        /\ ~GetSystemStatus(W).documents_processed'
        /\ index' = <<>> /\ chunks' = <<>> /\ metadata' = <<>>
        /\ message_queue' = <<>>
        /\ message_history' = message_history
        /\ trace_counter' = trace_counter

\* C12: clear_system, from a ready state or after a failed ingestion, leaves
\* the coordinator not ready, the index with no entry and the live queue
\* empty, and the message history exactly as it was.
C12_ClearFrame == [][C12_ClearStep]_vars

\* a clear made after a successful ingestion followed by one whose index
\* build failed (its INGESTION_COMPLETE is the last envelope sent)
C12_Witness ==
    /\ op.name = "clear_system"
    /\ message_queue = <<>>
    /\ ~documents_processed
    /\ Len(message_history) >= 3
    /\ message_history[Len(message_history)].type = "INGESTION_COMPLETE"
    /\ \E i \in 1..Len(message_history) :
          /\ message_history[i].type = "RETRIEVAL_READY"
          /\ message_history[i].payload.vector_store_stats.total_chunks > 0

C13_AnswerStep ==
    (op'.name = "answer_question" /\ documents_processed) =>
        /\ documents_processed'
        /\ GetSystemStatus(W).documents_processed'
        /\ UNCHANGED <<index, chunks, metadata, processed_documents, is_initialized>>
        /\ ret'.kind = "answer_question"
        /\ ret'.fault \in {"none", "retrieval", "generation", "no_context"}
        /\ ret'.fault = "none" => "error" \notin DOMAIN ret'.response
        /\ ret'.fault # "none" =>
              /\ "error" \in DOMAIN ret'.response
              /\ ret'.response.error # ""
              /\ "answer" \in DOMAIN ret'.response

C14_GenerationFailureStep ==
    (op'.name = "answer_question" /\ ret'.fault = "generation") =>
        /\ Len(message_history') = Len(message_history) + 2
        /\ LET context == message_history'[Len(message_history) + 1]
               error == message_history'[Len(message_history) + 2]
               retrieved == context.payload.retrieved_context
               sources == ret'.response.sources
           IN  /\ context.type = "CONTEXT_RESPONSE"
               /\ "error" \in DOMAIN ret'.response
               /\ ret'.response.error # ""
               /\ Len(sources) = Len(retrieved)
               /\ \A i \in 1..Len(retrieved) :
                     /\ sources[i].filename = retrieved[i].filename
                     /\ sources[i].chunk_id = retrieved[i].chunk_id
                     /\ sources[i].score = retrieved[i].score
               /\ error.type = "RESPONSE_ERROR"
               /\ error.sender = "LLMResponseAgent"
               /\ error.receiver = "CoordinatorAgent"
               /\ error.payload = ret'.response
               /\ message_queue' # <<>>
               /\ message_queue'[Len(message_queue')] = error

\* C14: when the text generator fails after the context was received, the
\* returned answer has an error field and one source per retrieved chunk, in
\* retrieval order, with the chunk's filename, chunk id and score, and a
\* RESPONSE_ERROR envelope with that same payload is sent to the coordinator.
C14_ErrorKeepsSources == [][C14_GenerationFailureStep]_vars

\* a failed generation over a context of several chunks, one of which is not
\* the first chunk of its document
C14_Witness ==
    /\ op.name = "answer_question"
    /\ ret.fault = "generation"
    /\ Len(ret.response.sources) >= 2
    /\ \E i \in 1..Len(ret.response.sources) : ret.response.sources[i].chunk_id > 0

\* no further request can be made within the work bound: the run is over
\* unless someone clears
RequestsDone == WorkDone >= MaxWork

\* C17: every envelope a request sent is consumed by a receive, at the
\* latest some time after the request returned and without a clear: when a
\* request has returned and the run is over, the live queue holds no
\* envelope, RETRIEVAL_READY, RESPONSE_COMPLETE and RESPONSE_ERROR included.
C17_Consumed ==
    (op.name \in {"process_documents", "answer_question"} /\ RequestsDone) =>
        message_queue = <<>>

\* the envelopes a step has added to the history
SentInStep == SubSeq(message_history', Len(message_history) + 1, Len(message_history'))

C18_RequestStep ==
    /\ \A t \in 1..MaxWork :
          SendMessage(message_queue, message_history, trace_counter,
                      "RetrievalAgent", "CoordinatorAgent", "RETRIEVAL_READY",
                      [status |-> "ready"], t).trace_id = t
    /\ (op'.name \in {"process_documents", "answer_question"} /\ SentInStep # <<>>) =>
          \E t \in 1..(MaxWork + 1) :
             /\ \A i \in 1..Len(SentInStep) : SentInStep[i].trace_id = t
             /\ \A j \in 1..Len(message_history) : message_history[j].trace_id # t
             /\ \A i \in 1..Len(SentInStep) :
                   SentInStep[i].type \in
                      IF op'.name = "process_documents"
                      THEN {"INGESTION_COMPLETE", "RETRIEVAL_READY"}
                      ELSE {"CONTEXT_RESPONSE", "RESPONSE_COMPLETE", "RESPONSE_ERROR"}

\* C18: the envelopes one request sends (INGESTION_COMPLETE and
\* RETRIEVAL_READY of an ingestion; CONTEXT_RESPONSE and RESPONSE_COMPLETE or
\* RESPONSE_ERROR of a question) all carry one trace id, which no envelope of
\* an earlier request carries, and send_message returns the trace id it is
\* given.
C18_TraceScoping == [][C18_RequestStep]_vars

\* a question answered after an ingestion: two envelopes under the new trace
\* id, two under the ingestion's
C18_Witness ==
    /\ op.name = "answer_question"
    /\ ret.fault = "none"
    /\ Len(message_history) >= 4
    /\ message_history[Len(message_history)].trace_id = trace_counter
    /\ message_history[Len(message_history) - 1].trace_id = trace_counter
    /\ \E j \in 1..Len(message_history) : message_history[j].trace_id # trace_counter

\* the two envelopes of a question: the context hand-off, then the outcome
QuestionEnvelopes(sent, outcome_type) ==
    /\ Len(sent) = 2
    /\ sent[1].type = "CONTEXT_RESPONSE"
    /\ sent[1].sender = "RetrievalAgent"
    /\ sent[1].receiver = "LLMResponseAgent"
    /\ sent[2].type = outcome_type
    /\ sent[2].sender = "LLMResponseAgent"
    /\ sent[2].receiver = "CoordinatorAgent"
    /\ sent[1].trace_id = sent[2].trace_id
    /\ sent[1].trace_id = trace_counter'

C19_StepAsStated ==
    (op'.name = "answer_question" /\ documents_processed) =>
        QuestionEnvelopes(SentInStep,
                          IF ret'.fault = "none" THEN "RESPONSE_COMPLETE"
                          ELSE "RESPONSE_ERROR")

\* C19 as stated: every question taken while ready adds to the history, under
\* its trace id, one CONTEXT_RESPONSE for the response stage and then one
\* RESPONSE_COMPLETE (success) or RESPONSE_ERROR (failure) for the
\* coordinator, whatever the outcome of retrieval and generation.
C19_ProtocolAsStated == [][C19_StepAsStated]_vars

C19_QuestionStep ==
    (op'.name = "answer_question" /\ documents_processed) =>
        /\ ret'.fault \in {"none", "generation", "retrieval"}
        /\ ret'.fault = "none" => QuestionEnvelopes(SentInStep, "RESPONSE_COMPLETE")
        /\ ret'.fault = "generation" => QuestionEnvelopes(SentInStep, "RESPONSE_ERROR")
        /\ ret'.fault = "retrieval" =>
              /\ SentInStep = <<>>
              /\ message_queue' = message_queue
              /\ llm_calls' = llm_calls

\* C19 amended: a question taken while ready whose retrieval returns adds to
\* the history, under its trace id, one CONTEXT_RESPONSE for the response
\* stage and then one RESPONSE_COMPLETE (generation succeeded) or
\* RESPONSE_ERROR (generation failed) for the coordinator; when retrieval
\* raises, the question adds no envelope, the response stage is not run and
\* the failure is reported in the returned answer only.
C19_QuestionProtocol == [][C19_QuestionStep]_vars

\* a question answered from a non-empty context: CONTEXT_RESPONSE then
\* RESPONSE_COMPLETE are the last two envelopes of the history
C19_Witness ==
    /\ op.name = "answer_question"
    /\ ret.fault = "none"
    /\ ret.response.sources # <<>>
    /\ Len(message_history) >= 2
    /\ message_history[Len(message_history)].type = "RESPONSE_COMPLETE"
    /\ message_history[Len(message_history) - 1].type = "CONTEXT_RESPONSE"

(***************************************************************************)
(* Claims about the response agent (checked under SpecResponse).           *)
(***************************************************************************)
\* the response agent's inbox holds no envelope, or its first one is not a
\* CONTEXT_RESPONSE
NoContextQueued ==
    \/ QueuedFor("LLMResponseAgent") = {}
    \/ \E i \in QueuedFor("LLMResponseAgent") :
          /\ \A j \in QueuedFor("LLMResponseAgent") : i <= j
          /\ message_queue[i].type # "CONTEXT_RESPONSE"

C20_PollStep ==
    (op'.name = "generate_response" /\ NoContextQueued) =>
        /\ ret'.fault = "no_context"
        /\ ret'.response.error = "No context available"
        /\ ret'.response.sources = <<>>
        /\ llm_calls' = llm_calls
        /\ message_history' = message_history
        /\ IsSubseq(message_queue', message_queue)
        /\ Len(message_queue') >= Len(message_queue) - 1

\* C20: when generate_response polls and finds no envelope for the response
\* agent, or finds one of another type first, it returns the 'no context
\* available' result (error set, no sources) in that same call, without
\* calling the text generator and without sending an envelope.
C20_NoContext == [][C20_PollStep]_vars

\* a poll that met an envelope of another type first while a
\* CONTEXT_RESPONSE for the response agent was queued behind it
C20_Witness ==
    /\ op.name = "generate_response"
    /\ ret.fault = "no_context"
    /\ \E m \in Envelopes(message_history) \ Envelopes(message_queue) :
          m.receiver = "LLMResponseAgent" /\ m.type # "CONTEXT_RESPONSE"
    /\ \E m \in Envelopes(message_queue) :
          m.receiver = "LLMResponseAgent" /\ m.type = "CONTEXT_RESPONSE"

(***************************************************************************)
(* Claims about ingestion runs of several sessions (checked under          *)
(* SpecConc).                                                              *)
(***************************************************************************)
\* C6: at no time are two ingestion runs in flight: at most one session's
\* script run is inside coordinator.process_documents.
C6_AtMostOneBuild == Cardinality(InFlight) <= 1

\* the envelopes a step took out of the live queue, those it sent itself
\* included
TakenInStep ==
    (Envelopes(message_queue) \cup Envelopes(SentInStep)) \ Envelopes(message_queue')

C23_StageStep ==
    /\ op'.name = "retrieval_step" =>
          \A m \in TakenInStep :
             m.receiver = "RetrievalAgent" =>
                /\ m.trace_id = sessions[op'.session].trace_id
                /\ (m.type = "INGESTION_COMPLETE" /\ ret'.value) =>
                      chunks' = chunks \o AllChunks(m.payload.processed_documents)
    /\ op'.name = "submit_question" =>
          \A m \in TakenInStep :
             m.receiver = "LLMResponseAgent" =>
                /\ m.trace_id = trace_counter'
                /\ m \in Envelopes(SentInStep)

\* C23: when the runs of two sessions interleave, the retrieval stage of an
\* ingestion run takes from the queue, and indexes, only the
\* INGESTION_COMPLETE envelope carrying that run's trace id, and the response
\* stage of a question takes only the CONTEXT_RESPONSE envelope carrying that
\* question's trace id.
C23_TraceIsolation == [][C23_StageStep]_vars

(***************************************************************************)
(* Claims about the state between the coordinator's operations in the      *)
(* single-threaded flow (checked under Spec)                               *)
(***************************************************************************)
StageMail(queue) ==
    {m \in Envelopes(queue) : m.receiver \in {"RetrievalAgent", "LLMResponseAgent"}}

C24_HandOffStep ==
    /\ StageMail(message_queue) = {}
    /\ StageMail(message_queue') = {}
    /\ op'.name \in {"process_documents", "answer_question"} =>
          \A m \in TakenInStep :
             /\ m \in StageMail(SentInStep)
             /\ m.trace_id = trace_counter'
             /\ \A n \in StageMail(SentInStep) : n = m

\* C24: in the single-threaded flow, between the calls of process_documents,
\* answer_question and clear_system (failed parses, index builds, retrievals
\* and generations included) the live queue holds no envelope for the
\* retrieval agent or the response agent; the envelope a stage takes is the
\* one sent earlier in the same call.
C24_NoStageMail == [][C24_HandOffStep]_vars

\* an ingestion whose index build raised, with earlier envelopes for the
\* coordinator still queued
C24_Witness ==
    /\ op.name = "process_documents"
    /\ ret.caught
    /\ message_queue # <<>>
    /\ message_history[Len(message_history)].type = "INGESTION_COMPLETE"

\* C25: between the coordinator's operations documents_processed is true
\* exactly when the retrieval agent's is_initialized is, so a question the
\* coordinator accepts never gets the empty result search_documents gives
\* for a vector store that is not initialized.
C25_FlagsAgree ==
    /\ documents_processed <=> is_initialized
    /\ GetSystemStatus(W).documents_processed <=>
          ("status" \notin DOMAIN GetVectorStoreStats(W))
    /\ op.name = "answer_question" => ret.fault # "no_context"

\* a question accepted and answered after an ingestion whose build raised
C25_Witness ==
    /\ op.name = "answer_question"
    /\ ret.fault = "none"
    /\ documents_processed /\ is_initialized
    /\ \E i \in 1..Len(message_history) :
          /\ message_history[i].type = "INGESTION_COMPLETE"
          /\ \A j \in 1..Len(message_history) :
                message_history[j].trace_id = message_history[i].trace_id => j = i

\* C26: between the coordinator's operations the number of chunks of the
\* documents the ingestion agent has recorded equals the number of entries
\* of the vector index, after any ingestions (index build failed or not),
\* questions and clears.
C26_CountsAgree == GetProcessingStats(W).total_chunks = Len(index)

(***************************************************************************)
(* Claims about add_documents running beside search (checked under         *)
(* SpecRace)                                                               *)
(***************************************************************************)
\* what the returned search gives on store contents v, run on its own
SearchOn(v) ==
    LET r == Search(v.index, v.chunks, v.metadata, op.query, op.top_k,
                    faiss_tie, op.encode_ok)
    IN  [kind |-> "search", raised |-> r.raised, results |-> r.results]

\* C22: a search that runs while add_documents inserts a batch returns what
\* the same search returns either wholly before or wholly after the batch;
\* it never sees the batch's embeddings without its chunks and metadata.
C22_SearchAtomic ==
    op.name = "search_return" => \E v \in op.views : ret = SearchOn(v)

=============================================================================
